---- MODULE Spec2Model ----
(***************************************************************************)
(* Model of the retrieval core of TravelAgent.py: the knowledge base and   *)
(* FAISS index of DestinationInfoRetriever, the build done by the          *)
(* itinerary handler and the lookup done by the query handler.             *)
(***************************************************************************)
EXTENDS Integers, Sequences, FiniteSets, TLC

(* ------------------------------ bounds --------------------------------- *)

\* number of itinerary requests (builds) in one run
MaxBuilds == 2

(* ------------------------- program constants --------------------------- *)

\* results.get('organic_results', [])[:5]
SnippetLimit == 5

\* self.index.search(np.array(query_embedding), k=3)
TopK == 3

(* ------------------------------ inputs --------------------------------- *)

\* an organic result that carries no 'snippet' key
NoSnippet == "<no snippet>"

\* the search call raised (network, quota, bad key)
Fail == [ok |-> FALSE, results |-> <<>>]

\* the search call returned the 'organic_results' list r
Fetched(r) == [ok |-> TRUE, results |-> r]

\* a result list longer than the slice keeps
LongResponse == <<"Louvre", "Orsay", NoSnippet, "Eiffel", "Seine", "Opera">>

\* the 'organic_results' lists a search may return
Responses == {<<>>, <<"Louvre">>, LongResponse}

\* outcomes of one search call
FetchOutcomes == {Fetched(r) : r \in Responses} \cup {Fail}

\* texts the user may type into the query box
Queries == {"Louvre", "Bistro"}

(* --------------------------- pure functions ----------------------------- *)

Min(a, b) == IF a < b THEN a ELSE b

\* result.get('snippet', '')
SnippetOf(item) == IF item = NoSnippet THEN "" ELSE item

\* [result.get('snippet', '') for result in results.get('organic_results', [])[:5]]
Snippets(resp) == [i \in 1..Min(SnippetLimit, Len(resp)) |-> SnippetOf(resp[i])]

\* _get_destination_attractions / _get_destination_restaurants:
\* any exception in the search is swallowed and yields []
FetchSnippets(fetch) == IF fetch.ok THEN Snippets(fetch.results) ELSE <<>>

\* a build that keeps the first source only
CorpusAttractionsOnly(attr, rest) == attr

\* attractions + restaurants
Corpus(attr, rest) == attr \o rest

\* the sentence encoder on one text: a fixed vector per text
Embed(text) ==
    CASE text = "Louvre" -> <<3, 0>>
      [] text = "Bistro" -> <<0, 4>>
      [] text = "Orsay"  -> <<4, 1>>
      [] text = "Eiffel" -> <<1, 5>>
      [] text = "Seine"  -> <<2, 2>>
      [] text = "Opera"  -> <<5, 5>>
      [] OTHER           -> <<0, 0>>

\* self.encoder.encode(list): one vector per text, same order
EmbedAll(texts) == [i \in 1..Len(texts) |-> Embed(texts[i])]

\* IndexFlatL2 metric: squared Euclidean distance
Dist2(u, v) == (u[1] - v[1]) * (u[1] - v[1]) + (u[2] - v[2]) * (u[2] - v[2])

InSeq(s, x) == \E j \in 1..Len(s) : s[j] = x

\* all ways to continue the ranking s (0-based labels) up to m labels, each
\* step taking a closest remaining vector; the library leaves the order of
\* equally distant vectors open
RECURSIVE Extend(_, _, _, _)
Extend(idx, qv, m, s) ==
    IF Len(s) = m THEN {s}
    ELSE LET rest == {p \in 0..(Len(idx) - 1) : ~InSeq(s, p)}
             best == {p \in rest :
                        \A r \in rest : Dist2(idx[p + 1], qv) <= Dist2(idx[r + 1], qv)}
         IN UNION {Extend(idx, qv, m, Append(s, p)) : p \in best}

\* faiss pads the labels with -1 when the index holds fewer than k vectors
PadLabels(s, k) == [j \in 1..k |-> IF j <= Len(s) THEN s[j] ELSE -1]

\* index.search(q, k): the label rows faiss may return
SearchResults(idx, qv, k) ==
    {PadLabels(s, k) : s \in Extend(idx, qv, Min(k, Len(idx)), <<>>)}

\* Python list indexing: i in [-n, n) is valid, negative counts from the end
ValidIndex(list, i) == i >= -Len(list) /\ i < Len(list)
PyIndex(list, i) == IF i >= 0 THEN list[i + 1] ELSE list[Len(list) + i + 1]

\* "\n".join(list)
RECURSIVE Join(_)
Join(list) ==
    IF Len(list) = 0 THEN ""
    ELSE IF Len(list) = 1 THEN list[1]
    ELSE list[1] \o "\n" \o Join(Tail(list))

\* str(e) of the IndexError raised by knowledge_base[i]
IndexErrorText == "list index out of range"

\* str(e) of an encoder failure
EncodeErrorText == "model unavailable"

\* f"Error retrieving information: {str(e)}"
ErrorReturn(msg) == "Error retrieving information: " \o msg

(* ------------------------------- state ---------------------------------- *)

\* calls of the itinerary handler that may be in flight together: src/ takes
\* no lock and passes no queue or concurrency argument, so whether a second
\* call starts before the first returns is left to the dispatcher; the model
\* admits both, calls in turn and calls that overlap
Builders == {1, 2}

VARIABLES
    knowledge_base,   \* self.knowledge_base
    index,            \* vectors held by self.index, in insertion order
    bpc,              \* position of each itinerary call (the build)
    responses,        \* what the two searches of each running build returned
    attractions,      \* local of _build_knowledge_base, per call
    restaurants,      \* local of _build_knowledge_base, per call
    embeddings,       \* local of _build_knowledge_base, per call
    entry,            \* knowledge_base and index when each running build began
    outcome,          \* how each running build ended
    builds,           \* the builds that ended so far: corpus and outcome
    raced,            \* two builds have been in flight at the same time
    qpc,              \* position of the query handler
    query,            \* argument of retrieve_relevant_info
    query_embedding,  \* local of retrieve_relevant_info
    indices,          \* local of retrieve_relevant_info
    resolved,         \* the list the comprehension of line 259 has built so far
    relevant_info,    \* local of retrieve_relevant_info
    ret,              \* value retrieve_relevant_info returned
    overlap           \* a build step ran since the running query began

shared == <<knowledge_base, index>>
bvars == <<bpc, responses, attractions, restaurants, embeddings, entry, outcome,
           builds, raced>>
qvars == <<qpc, query, query_embedding, indices, resolved, relevant_info, ret>>
vars == <<knowledge_base, index, bpc, responses, attractions, restaurants,
          embeddings, entry, outcome, builds, raced, qpc, query, query_embedding,
          indices, resolved, relevant_info, ret, overlap>>

\* what a step of a build does to overlap: it marks the running query
BuildMarks == overlap' = (overlap \/ qpc # "idle")

NoResponses == [a |-> Fail, r |-> Fail]
NoEntry == [kb |-> <<>>, index |-> <<>>]

\* builds between their start and the end of their indexing step
Running == {b \in Builders : bpc[b] \in {"restaurants", "assign", "encode", "add"}}

\* DestinationInfoRetriever.__init__ and the handlers waiting for a click
Init ==
    /\ knowledge_base = <<>>
    /\ index = <<>>
    /\ bpc = [b \in Builders |-> "idle"]
    /\ responses = [b \in Builders |-> NoResponses]
    /\ attractions = [b \in Builders |-> <<>>]
    /\ restaurants = [b \in Builders |-> <<>>]
    /\ embeddings = [b \in Builders |-> <<>>]
    /\ entry = [b \in Builders |-> NoEntry]
    /\ outcome = [b \in Builders |-> "none"]
    /\ builds = <<>>
    /\ raced = FALSE
    /\ qpc = "idle"
    /\ query = ""
    /\ query_embedding = <<>>
    /\ indices = <<>>
    /\ resolved = <<>>
    /\ relevant_info = <<>>
    /\ ret = ""
    /\ overlap = FALSE

(* --------------------- itinerary handler: the build --------------------- *)

\* line 67: attractions = self._get_destination_attractions(destination),
\* which swallows its own failure.  Nothing keeps a second call from
\* starting while one is running; a call takes the lowest free worker (the
\* workers are interchangeable).
StartBuild(b, ra) ==
    /\ bpc[b] = "idle"
    /\ \A c \in Builders : c < b => bpc[c] # "idle"
    /\ Len(builds) + Cardinality(Running) < MaxBuilds
    /\ responses' = [responses EXCEPT ![b].a = ra]
    /\ attractions' = [attractions EXCEPT ![b] = FetchSnippets(ra)]
    /\ entry' = [entry EXCEPT ![b] = [kb |-> knowledge_base, index |-> index]]
    /\ bpc' = [bpc EXCEPT ![b] = "restaurants"]
    /\ raced' = (raced \/ \E c \in Builders : c # b /\ bpc[c] # "idle")
    /\ BuildMarks
    /\ UNCHANGED <<shared, restaurants, embeddings, outcome, builds, qvars>>

\* line 70: restaurants = self._get_destination_restaurants(destination)
FetchRestaurants(b, rr) ==
    /\ bpc[b] = "restaurants"
    /\ responses' = [responses EXCEPT ![b].r = rr]
    /\ restaurants' = [restaurants EXCEPT ![b] = FetchSnippets(rr)]
    /\ bpc' = [bpc EXCEPT ![b] = "assign"]
    /\ BuildMarks
    /\ UNCHANGED <<shared, attractions, embeddings, entry, outcome, builds,
                   raced, qvars>>

\* line 73: self.knowledge_base = attractions + restaurants
AssignKnowledgeBase(b) ==
    /\ bpc[b] = "assign"
    /\ knowledge_base' = Corpus(attractions[b], restaurants[b])
    /\ bpc' = [bpc EXCEPT ![b] = "encode"]
    /\ BuildMarks
    /\ UNCHANGED <<index, responses, attractions, restaurants, embeddings,
                   entry, outcome, builds, raced, qvars>>

\* line 76: embeddings = self.encoder.encode(self.knowledge_base), the list
\* the attribute holds at that moment; a failure goes to the except clause
\* of line 78, which only prints
EncodeCorpus(b, ok) ==
    /\ bpc[b] = "encode"
    /\ IF ok
       THEN /\ embeddings' = [embeddings EXCEPT ![b] = EmbedAll(knowledge_base)]
            /\ bpc' = [bpc EXCEPT ![b] = "add"]
            /\ UNCHANGED <<outcome, builds>>
       ELSE /\ outcome' = [outcome EXCEPT ![b] = "encode_error"]
            /\ builds' = Append(builds, [corpus |-> knowledge_base,
                                         outcome |-> "encode_error"])
            /\ bpc' = [bpc EXCEPT ![b] = "return"]
            /\ UNCHANGED embeddings
    /\ BuildMarks
    /\ UNCHANGED <<shared, responses, attractions, restaurants, entry, raced, qvars>>

\* what index.add leaves in the index: the new vectors go after the old ones;
\* with no vector at all the call adds nothing (or raises into line 78)
Added(idx, vecs) == idx \o vecs

\* line 77: self.index.add(np.array(embeddings))
AddToIndex(b) ==
    /\ bpc[b] = "add"
    /\ index' = Added(index, embeddings[b])
    /\ outcome' = [outcome EXCEPT
                     ![b] = IF Len(embeddings[b]) = 0 THEN "empty" ELSE "added"]
    /\ builds' = Append(builds, [corpus |-> knowledge_base, outcome |-> outcome'[b]])
    /\ bpc' = [bpc EXCEPT ![b] = "return"]
    /\ BuildMarks
    /\ UNCHANGED <<knowledge_base, responses, attractions, restaurants,
                   embeddings, entry, raced, qvars>>

\* _build_knowledge_base returns; its locals are gone
ReturnBuild(b) ==
    /\ bpc[b] = "return"
    /\ bpc' = [bpc EXCEPT ![b] = "idle"]
    /\ responses' = [responses EXCEPT ![b] = NoResponses]
    /\ attractions' = [attractions EXCEPT ![b] = <<>>]
    /\ restaurants' = [restaurants EXCEPT ![b] = <<>>]
    /\ embeddings' = [embeddings EXCEPT ![b] = <<>>]
    /\ entry' = [entry EXCEPT ![b] = NoEntry]
    /\ outcome' = [outcome EXCEPT ![b] = "none"]
    /\ BuildMarks
    /\ UNCHANGED <<shared, builds, raced, qvars>>

(* ---------------------- query handler: the lookup ----------------------- *)

\* line 253: query_embedding = self.encoder.encode([query]);
\* a failure goes to the except clause of line 261
StartQuery(q, ok) ==
    /\ qpc = "idle"
    /\ query' = q
    /\ IF ok
       THEN /\ query_embedding' = Embed(q)
            /\ qpc' = "search"
            /\ UNCHANGED ret
       ELSE /\ ret' = ErrorReturn(EncodeErrorText)
            /\ qpc' = "respond"
            /\ UNCHANGED query_embedding
    /\ overlap' = (\E b \in Builders : bpc[b] # "idle")
    /\ UNCHANGED <<shared, bvars, indices, resolved, relevant_info>>

\* line 256: _, indices = self.index.search(np.array(query_embedding), k=3)
SearchIndex ==
    /\ qpc = "search"
    /\ \E labels \in SearchResults(index, query_embedding, TopK) :
          indices' = labels
    /\ qpc' = "resolve"
    /\ UNCHANGED <<shared, bvars, query, query_embedding, resolved, relevant_info,
                   ret, overlap>>

\* one iteration of the comprehension of line 259, the list it has built,
\* the value of relevant_info and the return value after it
ResolveStep(kb, done, label, last) ==
    IF ValidIndex(kb, label)
    THEN LET list == Append(done, PyIndex(kb, label))
         IN IF last
            THEN [raised |-> FALSE, done |-> TRUE, resolved |-> list, ret |-> Join(list)]
            ELSE [raised |-> FALSE, done |-> FALSE, resolved |-> list, ret |-> ""]
    ELSE [raised |-> TRUE, done |-> TRUE, resolved |-> <<>>,
          ret |-> ErrorReturn(IndexErrorText)]

\* a lookup that takes each entry it resolves out of the knowledge base
ResolveLabelPopping ==
    /\ qpc = "resolve"
    /\ LET j == Len(resolved) + 1
           step == ResolveStep(knowledge_base, resolved, indices[j], j = Len(indices))
       IN /\ resolved' = step.resolved
          /\ relevant_info' = IF step.done /\ ~step.raised THEN step.resolved
                               ELSE relevant_info
          /\ ret' = step.ret
          /\ qpc' = IF step.done THEN "respond" ELSE "resolve"
    /\ knowledge_base' =
          IF knowledge_base = <<>> THEN knowledge_base
          ELSE SubSeq(knowledge_base, 1, Len(knowledge_base) - 1)
    /\ UNCHANGED <<index, bvars, query, query_embedding, indices, overlap>>

\* lines 259-262: the comprehension reads self.knowledge_base anew for each
\* label; after the last label the texts are joined, an IndexError goes to
\* the except clause
ResolveLabel ==
    /\ qpc = "resolve"
    /\ LET j == Len(resolved) + 1
           step == ResolveStep(knowledge_base, resolved, indices[j], j = Len(indices))
       IN /\ resolved' = step.resolved
          /\ relevant_info' = IF step.done /\ ~step.raised THEN step.resolved
                               ELSE relevant_info
          /\ ret' = step.ret
          /\ qpc' = IF step.done THEN "respond" ELSE "resolve"
    /\ UNCHANGED <<shared, bvars, query, query_embedding, indices, overlap>>

\* lines 352-378: handle_user_query uses the text and returns
Respond ==
    /\ qpc = "respond"
    /\ qpc' = "idle"
    /\ query' = ""
    /\ query_embedding' = <<>>
    /\ indices' = <<>>
    /\ resolved' = <<>>
    /\ relevant_info' = <<>>
    /\ ret' = ""
    /\ overlap' = FALSE
    /\ UNCHANGED <<shared, bvars>>

(* --------------------------- specifications ----------------------------- *)

BuildStep ==
    \/ \E b \in Builders, ra \in FetchOutcomes : StartBuild(b, ra)
    \/ \E b \in Builders, rr \in FetchOutcomes : FetchRestaurants(b, rr)
    \/ \E b \in Builders : AssignKnowledgeBase(b)
    \/ \E b \in Builders, ok \in BOOLEAN : EncodeCorpus(b, ok)
    \/ \E b \in Builders : AddToIndex(b)
    \/ \E b \in Builders : ReturnBuild(b)

QueryStep ==
    \/ \E q \in Queries, ok \in BOOLEAN : StartQuery(q, ok)
    \/ SearchIndex
    \/ ResolveLabel
    \/ Respond

\* the click handlers are independent listeners on the one shared retriever,
\* with no lock and no concurrency setting: their steps interleave freely
Next ==
    \/ BuildStep
    \/ QueryStep

Spec == Init /\ [][Next]_vars

(* ----------------------- vocabulary of the claims ----------------------- *)

\* a build that ran to its end and added its vectors to the index
Completed(b) == b.outcome = "added"

AllCompleted == \A i \in 1..Len(builds) : Completed(builds[i])

\* the last build that ended
LastBuild == builds[Len(builds)]

\* no build is running and no two builds ever ran at the same time
BuildsInTurn == ~raced /\ \A b \in Builders : bpc[b] = "idle"

\* retrieve_relevant_info has returned after a successful query embedding,
\* no step of a build ran while it was running and the builds ran in turn
QueryAnswered == qpc = "respond" /\ indices # <<>> /\ ~overlap /\ BuildsInTurn

\* the texts at the labels, all read from the one list kb
Resolved(kb, labels) == [j \in 1..Len(labels) |-> PyIndex(kb, labels[j])]

\* what a lookup returns for the label row when kb does not change under it
Lookup(kb, labels) ==
    IF \A j \in 1..Len(labels) : ValidIndex(kb, labels[j])
    THEN Join(Resolved(kb, labels))
    ELSE ErrorReturn(IndexErrorText)

\* what retrieve_relevant_info may return for q on a retriever that has
\* built the corpus kb once and nothing else
FreshReturns(kb, q) ==
    {Lookup(kb, labels) : labels \in SearchResults(EmbedAll(kb), Embed(q), TopK)}

Distinct(list) == \A i, j \in 1..Len(list) : list[i] = list[j] => i = j

(* -------------------------------- claims -------------------------------- *)

\* C1: once every build so far has completed, the index holds exactly one
\* vector per knowledge_base entry, and the vector at position i is the
\* embedding of knowledge_base[i].
C1_IndexMatchesCorpus ==
    (BuildsInTurn /\ Len(builds) >= 1 /\ AllCompleted)
        => /\ Len(index) = Len(knowledge_base)
           /\ \A i \in 1..Len(index) : index[i] = Embed(knowledge_base[i])

\* C2: after a completed build of B that follows a completed build of a
\* different corpus A, a query returns what a retriever that only ever
\* built B returns: B's text, found through B's vectors.
C2_ReplacementNotAccumulation ==
    (/\ QueryAnswered
     /\ Len(builds) >= 2
     /\ Completed(builds[Len(builds) - 1])
     /\ Completed(LastBuild)
     /\ builds[Len(builds) - 1].corpus # LastBuild.corpus)
        => ret \in FreshReturns(LastBuild.corpus, query)

\* C3: a query against an empty knowledge_base (never built, or built from
\* zero text) returns the empty result, not an error text.
C3_EmptyCorpusEmptyResult ==
    (QueryAnswered /\ knowledge_base = <<>>) => ret = ""

\* C4: a query returns at most TopK texts, and on a non-empty index exactly
\* min(TopK, corpus size) of them, without error.
C4_KBounded ==
    QueryAnswered =>
        /\ Len(relevant_info) <= TopK
        /\ index # <<>> =>
              /\ ret # ErrorReturn(IndexErrorText)
              /\ Len(relevant_info) = Min(TopK, Len(knowledge_base))

\* C5: a build whose embedding step failed leaves knowledge_base and the
\* index exactly as they were when the build began.
C5_FailedBuildAllOrNothing ==
    \A b \in Builders :
        (bpc[b] = "return" /\ outcome[b] = "encode_error" /\ ~raced)
            => /\ knowledge_base = entry[b].kb
               /\ index = entry[b].index

\* C6: two consecutive completed builds from identical source text answer
\* every query as a single such build does.
C6_RebuildIdempotent ==
    (/\ QueryAnswered
     /\ Len(builds) = 2
     /\ AllCompleted
     /\ builds[1].corpus = builds[2].corpus)
        => ret \in FreshReturns(builds[1].corpus, query)

\* the snippets of a response, written out item by item
RECURSIVE TextOf(_, _)
TextOf(results, n) ==
    IF n = 0 \/ results = <<>> THEN <<>>
    ELSE <<IF Head(results) = NoSnippet THEN "" ELSE Head(results)>>
            \o TextOf(Tail(results), n - 1)

\* the source of build b that did not fail, when exactly one failed
Remaining(b) == IF responses[b].a.ok THEN responses[b].a ELSE responses[b].r

\* build b lost exactly one of its two sources
OneSourceFailed(b) == responses[b].a.ok # responses[b].r.ok

\* the text of the source build b has left
RemainingText(b) == TextOf(Remaining(b).results, SnippetLimit)

\* line 73 of a build that lost one source assigns the other source's text
\* and the build goes on to line 76
AssignsRemaining ==
    \A b \in Builders :
        (bpc[b] = "assign" /\ bpc'[b] # "assign" /\ OneSourceFailed(b))
            => /\ knowledge_base' = RemainingText(b)
               /\ bpc'[b] = "encode"

\* with calls in turn, that text stays the corpus to the end of the build and
\* is what the build adds to the index unless the encoder fails
KeepsRemaining ==
    \A b \in Builders :
        (~raced /\ bpc[b] \in {"encode", "add", "return"} /\ OneSourceFailed(b))
            => /\ knowledge_base = RemainingText(b)
               /\ (bpc[b] = "return" /\ outcome[b] # "encode_error")
                     => index = entry[b].index \o EmbedAll(RemainingText(b))

\* C7: when exactly one of the two searches of a build fails, the build goes
\* on: its line 73 makes knowledge_base the text of the other source in item
\* order, whatever else is in flight; and with itinerary calls in turn that
\* text is the corpus from line 73 to the end of the build and, unless the
\* encoder fails, what the build adds to the index.
C7_SourceFailureIsolated == [][AssignsRemaining]_vars /\ []KeepsRemaining

\* a build in turn whose attractions search failed has ended after adding the
\* first SnippetLimit snippets of a longer restaurants response
C7_Witness ==
    \E b \in Builders :
        /\ ~raced
        /\ bpc[b] = "return"
        /\ outcome[b] = "added"
        /\ ~responses[b].a.ok
        /\ responses[b].r = Fetched(LongResponse)
        /\ Len(knowledge_base) = SnippetLimit

\* C8: while a build is between replacing knowledge_base and inserting the
\* vectors, no query is inside retrieve_relevant_info and no other build is
\* between those two lines.
C8_BuildRunsAlone ==
    \A b \in Builders :
        bpc[b] \in {"encode", "add"}
            => /\ qpc \notin {"search", "resolve"}
               /\ \A c \in Builders : c # b => bpc[c] \notin {"encode", "add"}

\* C9: no step of a query changes knowledge_base or the index, whether the
\* query embedding succeeds or fails.
C9_QueryLeavesSessionUnchanged ==
    [][qvars' # qvars => (knowledge_base' = knowledge_base /\ index' = index)]_vars

C9_Witness ==
    /\ qpc = "respond"
    /\ ret = ErrorReturn(EncodeErrorText)
    /\ Len(builds) >= 1
    /\ LastBuild.outcome = "added"
    /\ index # <<>>

\* C10: after completed builds ending with a corpus of distinct snippets, a
\* query with the exact text of entry i returns entry i first, and the
\* returned texts are the entries at the labels in search order.
C10_RoundTrip ==
    (/\ QueryAnswered
     /\ Len(builds) >= 1
     /\ AllCompleted
     /\ Distinct(knowledge_base)
     /\ \E i \in 1..Len(knowledge_base) : knowledge_base[i] = query)
        => /\ Len(relevant_info) >= 1
           /\ relevant_info[1] = query
           /\ \A j \in 1..Len(relevant_info) :
                 indices[j] >= 0 =>
                    /\ indices[j] < Len(knowledge_base)
                    /\ relevant_info[j] = knowledge_base[indices[j] + 1]
====
